---- MODULE Spec2Model ----
(***************************************************************************)
(* Model of the two kernel-image scanning scripts of zig-kernel:           *)
(*   find_magic.py  looks for the boot marker 02 b0 ad 1b                  *)
(*   find_mb2.py    looks for the Multiboot2 magic d6 50 52 e8 and dumps   *)
(*                  the 32 bytes that start at it                          *)
(* One run of a script is a sequence of statements; every statement is an  *)
(* action, pc is the position of the run.  The file on disk and whether it *)
(* can be opened and read are the environment; they are fixed in Init.     *)
(***************************************************************************)
EXTENDS Integers, Sequences, FiniteSets, TLC

VARIABLES tool, file, fileStatus, pc, handle, opens, data, magic, offset,
          header, out, run, history

vars == <<tool, file, fileStatus, pc, handle, opens, data, magic, offset,
          header, out, run, history>>

(* ---------------- bounds of the explored inputs ---------------- *)
MaxChunks == 3
PadUnit == 16
MaxPre == 1
MaxPost == 2
MaxRuns == 2

(* ---------------- program constants ---------------- *)
\* find_magic.py line 3: magic = b"\x02\xb0\xad\x1b"
MagicBytes == <<2, 176, 173, 27>>

\* find_mb2.py line 3, big-endian order of the same four bytes
Mb2MagicBigEndian == <<232, 82, 80, 214>>

\* find_mb2.py line 3: magic = b"\xd6\x50\x52\xe8"
Mb2MagicBytes == <<214, 80, 82, 232>>

\* find_mb2.py line 8: the width of the dumped window
HeaderLen == 32

\* 0xE85250D6 does not fit a 32-bit signed integer, so the value the source
\* comment names is kept as its two 16-bit halves: 0xE852 and 0x50D6.
Mb2ValueHi == 59474
Mb2ValueLo == 20694

\* byte i (0 = least significant) of the 32-bit value Hi * 2^16 + Lo
ValueByte(hi, lo, i) ==
    IF i < 2 THEN (lo \div (256 ^ i)) % 256
             ELSE (hi \div (256 ^ (i - 2))) % 256

(* ---------------- pure functions ---------------- *)
Min(a, b) == IF a <= b THEN a ELSE b
Max(a, b) == IF a >= b THEN a ELSE b

\* B[i : i + len(P)] == P, i zero-based
MatchAt(B, P, i) ==
    /\ i >= 0
    /\ i + Len(P) <= Len(B)
    /\ \A k \in 1..Len(P) : B[i + k] = P[k]

RECURSIVE FindFrom(_, _, _)
FindFrom(B, P, i) ==
    IF i + Len(P) > Len(B) THEN -1
    ELSE IF MatchAt(B, P, i) THEN i
    ELSE FindFrom(B, P, i + 1)

RECURSIVE RFindFrom(_, _, _)
RFindFrom(B, P, i) ==
    IF i < 0 THEN -1
    ELSE IF MatchAt(B, P, i) THEN i
    ELSE RFindFrom(B, P, i - 1)

\* a search that compares only the first two bytes of the pattern
RECURSIVE FindPrefixFrom(_, _, _)
FindPrefixFrom(B, P, i) ==
    IF i + 2 > Len(B) THEN -1
    ELSE IF B[i + 1] = P[1] /\ B[i + 2] = P[2] THEN i
    ELSE FindPrefixFrom(B, P, i + 1)

FindLast(B, P) == RFindFrom(B, P, Len(B) - Len(P))

FindPrefix(B, P) == FindPrefixFrom(B, P, 0)

\* bytes.find(sub): lowest index of sub in the buffer, -1 when absent
Find(B, P) == FindFrom(B, P, 0)

\* the test of the if statement, with the sentinel mistaken for 0
FoundNonZero(o) == o # 0

\* if offset != -1
Found(o) == o # -1

\* a slice end as Python adjusts it
SliceIndex(B, x) == IF x < 0 THEN Max(x + Len(B), 0) ELSE Min(x, Len(B))

\* a window that is filled up with zero bytes to the full width
SlicePadded(B, lo, hi) ==
    [k \in 1..(hi - lo) |-> IF lo + k <= Len(B) THEN B[lo + k] ELSE 0]

\* B[lo : hi]: a negative end counts from len(B), both ends are clipped to
\* 0..len(B), and an empty range gives the empty sequence
Slice(B, lo, hi) ==
    LET l == SliceIndex(B, lo)
        h == SliceIndex(B, hi)
    IN  IF h <= l THEN <<>> ELSE [k \in 1..(h - l) |-> B[l + k]]

Digits == <<"0", "1", "2", "3", "4", "5", "6", "7", "8", "9">>

HexDigits == <<"0", "1", "2", "3", "4", "5", "6", "7", "8", "9",
               "a", "b", "c", "d", "e", "f">>

\* the decimal text of an integer, as an f-string formats it
RECURSIVE Dec(_)
Dec(n) ==
    IF n < 0 THEN "-" \o Dec(-n)
    ELSE IF n < 10 THEN Digits[n + 1]
    ELSE Dec(n \div 10) \o Digits[(n % 10) + 1]

\* bytes.hex(): two lowercase hexadecimal digits per byte, high nibble first
RECURSIVE Hex(_)
Hex(B) ==
    IF B = <<>> THEN ""
    ELSE HexDigits[(Head(B) \div 16) + 1] \o HexDigits[(Head(B) % 16) + 1]
         \o Hex(Tail(B))

(* ---------------- the lines the scripts print ---------------- *)
MagicFoundLine(o) == "Found magic at offset: " \o Dec(o)
MagicNotFoundLine == "Magic not found"
Mb2FoundLine(o) == "Found Multiboot 2 magic at offset: " \o Dec(o)
Mb2BareHeaderLine(h) == Hex(h)
Mb2HeaderLine(h) == "Header: " \o Hex(h)
Mb2NotFoundLine == "Multiboot 2 magic not found"

(* ---------------- the explored file contents ---------------- *)
Zeros(n) == [k \in 1..n |-> 0]

\* pieces a file is assembled from: a zero byte, the whole pattern, and the
\* two halves of the pattern (so that partial and straddling matches occur)
Chunks(P) == { <<0>>, P, SubSeq(P, 1, 2), SubSeq(P, 3, 4) }

RECURSIVE Flatten(_)
Flatten(ss) == IF ss = <<>> THEN <<>> ELSE Head(ss) \o Flatten(Tail(ss))

Cores(P) ==
    { Flatten(cs) : cs \in UNION { [1..n -> Chunks(P)] : n \in 0..MaxChunks } }

Buffers(P) ==
    { Zeros(a * PadUnit) \o c \o Zeros(b * PadUnit) :
        a \in 0..MaxPre, b \in 0..MaxPost, c \in Cores(P) }

PatternOf(t) == IF t = "magic" THEN MagicBytes ELSE Mb2MagicBytes

(* ---------------- initial state ---------------- *)
Init ==
    /\ tool \in {"magic", "mb2"}
    /\ file \in Buffers(PatternOf(tool))
    /\ fileStatus \in {"ok", "missing", "denied", "ioerror"}
    /\ pc = "open"
    /\ handle = "none"
    /\ opens = 0
    /\ data = <<>>
    /\ magic = <<>>
    /\ offset = <<>>
    /\ header = <<>>
    /\ out = <<>>
    /\ run = 1
    /\ history = <<>>

(* ---------------- find_magic.py, statement by statement ---------------- *)
\* line 1: with open("zig-out/bin/kernel", "rb") as f
MagicOpen ==
    /\ tool = "magic"
    /\ pc = "open"
    /\ opens' = opens + 1
    /\ IF fileStatus \in {"missing", "denied"}
       THEN /\ pc' = "error"
            /\ handle' = handle
       ELSE /\ pc' = "read"
            /\ handle' = "open"
    /\ UNCHANGED <<tool, file, fileStatus, data, magic, offset, header, out,
                   run, history>>

\* line 2 with the failure of the read caught and an empty buffer scanned
MagicReadSwallow ==
    /\ tool = "magic"
    /\ pc = "read"
    /\ pc' = "magic"
    /\ data' = IF fileStatus = "ioerror" THEN <<>> ELSE file
    /\ UNCHANGED <<tool, file, fileStatus, handle, opens, magic, offset, header,
                   out, run, history>>

\* line 2 with the handle left open when the read raises
MagicReadLeak ==
    /\ tool = "magic"
    /\ pc = "read"
    /\ IF fileStatus = "ioerror"
       THEN /\ pc' = "error"
            /\ UNCHANGED <<handle, data>>
       ELSE /\ pc' = "magic"
            /\ data' = file
            /\ handle' = handle
    /\ UNCHANGED <<tool, file, fileStatus, opens, magic, offset, header, out,
                   run, history>>

\* line 2: data = f.read(); an exception leaves the with block, which closes f
MagicRead ==
    /\ tool = "magic"
    /\ pc = "read"
    /\ IF fileStatus = "ioerror"
       THEN /\ pc' = "error"
            /\ handle' = "closed"
            /\ data' = data
       ELSE /\ pc' = "magic"
            /\ data' = file
            /\ handle' = handle
    /\ UNCHANGED <<tool, file, fileStatus, opens, magic, offset, header, out,
                   run, history>>

\* line 3: magic = b"\x02\xb0\xad\x1b"
MagicAssign ==
    /\ tool = "magic"
    /\ pc = "magic"
    /\ magic' = MagicBytes
    /\ pc' = "find"
    /\ UNCHANGED <<tool, file, fileStatus, handle, opens, data, offset, header,
                   out, run, history>>

\* line 4: offset = data.find(magic)
MagicFind ==
    /\ tool = "magic"
    /\ pc = "find"
    /\ offset' = <<Find(data, magic)>>
    /\ pc' = "branch"
    /\ UNCHANGED <<tool, file, fileStatus, handle, opens, data, magic, header,
                   out, run, history>>

\* lines 5-6 with a second line written after the first
MagicPrintFoundTwice ==
    /\ tool = "magic"
    /\ pc = "branch"
    /\ Found(offset[1])
    /\ out' = out \o <<MagicFoundLine(offset[1]), MagicNotFoundLine>>
    /\ pc' = "exit"
    /\ UNCHANGED <<tool, file, fileStatus, handle, opens, data, magic, offset,
                   header, run, history>>

\* lines 5-6: if offset != -1: print(f"Found magic at offset: {offset}")
MagicPrintFound ==
    /\ tool = "magic"
    /\ pc = "branch"
    /\ Found(offset[1])
    /\ out' = Append(out, MagicFoundLine(offset[1]))
    /\ pc' = "exit"
    /\ UNCHANGED <<tool, file, fileStatus, handle, opens, data, magic, offset,
                   header, run, history>>

\* lines 7-8: else: print("Magic not found")
MagicPrintNotFound ==
    /\ tool = "magic"
    /\ pc = "branch"
    /\ ~Found(offset[1])
    /\ out' = Append(out, MagicNotFoundLine)
    /\ pc' = "exit"
    /\ UNCHANGED <<tool, file, fileStatus, handle, opens, data, magic, offset,
                   header, run, history>>

\* end of the with block (after line 8): f is closed
MagicClose ==
    /\ tool = "magic"
    /\ pc = "exit"
    /\ handle' = "closed"
    /\ pc' = "done"
    /\ UNCHANGED <<tool, file, fileStatus, opens, data, magic, offset, header,
                   out, run, history>>

(* ---------------- find_mb2.py, statement by statement ---------------- *)
\* line 1: with open("zig-out/bin/kernel", "rb") as f
Mb2Open ==
    /\ tool = "mb2"
    /\ pc = "open"
    /\ opens' = opens + 1
    /\ IF fileStatus \in {"missing", "denied"}
       THEN /\ pc' = "error"
            /\ handle' = handle
       ELSE /\ pc' = "read"
            /\ handle' = "open"
    /\ UNCHANGED <<tool, file, fileStatus, data, magic, offset, header, out,
                   run, history>>

\* line 2: data = f.read(); an exception leaves the with block, which closes f
Mb2Read ==
    /\ tool = "mb2"
    /\ pc = "read"
    /\ IF fileStatus = "ioerror"
       THEN /\ pc' = "error"
            /\ handle' = "closed"
            /\ data' = data
       ELSE /\ pc' = "magic"
            /\ data' = file
            /\ handle' = handle
    /\ UNCHANGED <<tool, file, fileStatus, opens, magic, offset, header, out,
                   run, history>>

\* line 3 with the bytes written most significant first
Mb2AssignBigEndian ==
    /\ tool = "mb2"
    /\ pc = "magic"
    /\ magic' = Mb2MagicBigEndian
    /\ pc' = "find"
    /\ UNCHANGED <<tool, file, fileStatus, handle, opens, data, offset, header,
                   out, run, history>>

\* line 3: magic = b"\xd6\x50\x52\xe8"
Mb2Assign ==
    /\ tool = "mb2"
    /\ pc = "magic"
    /\ magic' = Mb2MagicBytes
    /\ pc' = "find"
    /\ UNCHANGED <<tool, file, fileStatus, handle, opens, data, offset, header,
                   out, run, history>>

\* line 4: offset = data.find(magic)
Mb2Find ==
    /\ tool = "mb2"
    /\ pc = "find"
    /\ offset' = <<Find(data, magic)>>
    /\ pc' = "branch"
    /\ UNCHANGED <<tool, file, fileStatus, handle, opens, data, magic, header,
                   out, run, history>>

\* lines 5-6: if offset != -1: print(f"Found Multiboot 2 magic at offset: ...")
Mb2PrintFound ==
    /\ tool = "mb2"
    /\ pc = "branch"
    /\ Found(offset[1])
    /\ out' = Append(out, Mb2FoundLine(offset[1]))
    /\ pc' = "slice"
    /\ UNCHANGED <<tool, file, fileStatus, handle, opens, data, magic, offset,
                   header, run, history>>

\* line 8: header = data[offset : offset + 32]
Mb2Slice ==
    /\ tool = "mb2"
    /\ pc = "slice"
    /\ header' = Slice(data, offset[1], offset[1] + HeaderLen)
    /\ pc' = "dump"
    /\ UNCHANGED <<tool, file, fileStatus, handle, opens, data, magic, offset,
                   out, run, history>>

\* line 9 with the dump written ahead of everything printed so far
Mb2PrintHeaderFirst ==
    /\ tool = "mb2"
    /\ pc = "dump"
    /\ out' = <<Mb2HeaderLine(header)>> \o out
    /\ pc' = "exit"
    /\ UNCHANGED <<tool, file, fileStatus, handle, opens, data, magic, offset,
                   header, run, history>>

\* line 9: print(f"Header: {header.hex()}")
Mb2PrintHeader ==
    /\ tool = "mb2"
    /\ pc = "dump"
    /\ out' = Append(out, Mb2HeaderLine(header))
    /\ pc' = "exit"
    /\ UNCHANGED <<tool, file, fileStatus, handle, opens, data, magic, offset,
                   header, run, history>>

\* lines 10-11: else: print("Multiboot 2 magic not found")
Mb2PrintNotFound ==
    /\ tool = "mb2"
    /\ pc = "branch"
    /\ ~Found(offset[1])
    /\ out' = Append(out, Mb2NotFoundLine)
    /\ pc' = "exit"
    /\ UNCHANGED <<tool, file, fileStatus, handle, opens, data, magic, offset,
                   header, run, history>>

\* end of the with block (after line 11): f is closed
Mb2Close ==
    /\ tool = "mb2"
    /\ pc = "exit"
    /\ handle' = "closed"
    /\ pc' = "done"
    /\ UNCHANGED <<tool, file, fileStatus, opens, data, magic, offset, header,
                   out, run, history>>

(* ---------------- running the same script again ---------------- *)
\* a later process that is handed what the earlier one printed
RerunCarryOutput ==
    /\ pc \in {"done", "error"}
    /\ run < MaxRuns
    /\ history' = Append(history, [file |-> file, ended |-> pc, out |-> out])
    /\ run' = run + 1
    /\ pc' = "open"
    /\ handle' = "none"
    /\ opens' = 0
    /\ data' = <<>>
    /\ magic' = <<>>
    /\ offset' = <<>>
    /\ header' = <<>>
    /\ UNCHANGED <<tool, file, fileStatus, out>>

\* The process has ended; the script is started again on the same file.  A
\* new process starts with nothing of the earlier one: no variables, no
\* handle, an empty output.  history records what the earlier runs printed.
Rerun ==
    /\ pc \in {"done", "error"}
    /\ run < MaxRuns
    /\ history' = Append(history, [file |-> file, ended |-> pc, out |-> out])
    /\ run' = run + 1
    /\ pc' = "open"
    /\ handle' = "none"
    /\ opens' = 0
    /\ data' = <<>>
    /\ magic' = <<>>
    /\ offset' = <<>>
    /\ header' = <<>>
    /\ out' = <<>>
    /\ UNCHANGED <<tool, file, fileStatus>>

Next ==
    \/ MagicOpen
    \/ MagicRead
    \/ MagicAssign
    \/ MagicFind
    \/ MagicPrintFound
    \/ MagicPrintNotFound
    \/ MagicClose
    \/ Mb2Open
    \/ Mb2Read
    \/ Mb2Assign
    \/ Mb2Find
    \/ Mb2PrintFound
    \/ Mb2Slice
    \/ Mb2PrintHeader
    \/ Mb2PrintNotFound
    \/ Mb2Close
    \/ Rerun

Spec == Init /\ [][Next]_vars

(* ======================= the checked properties ======================= *)
\* the constant pattern of the script that is running
Pattern == PatternOf(tool)

Occurs(B, Q) == \E i \in 0..(Len(B) - Len(Q)) : MatchAt(B, Q, i)

FoundLine(o) == IF tool = "magic" THEN MagicFoundLine(o) ELSE Mb2FoundLine(o)

NotFoundLine == IF tool = "magic" THEN MagicNotFoundLine ELSE Mb2NotFoundLine

\* the offsets that standard output reports, read back from the printed lines
ReportedOffsets ==
    IF out = <<>> THEN {}
    ELSE { k \in -1..Len(file) : \E i \in DOMAIN out : out[i] = FoundLine(k) }

\* the if statement has been executed and its line printed
Reported == pc \in {"slice", "dump", "exit", "done"}

\* the bytes data[o : min(o + 32, len(data))], written out element by element
Window(o) == [k \in 1..Min(HeaderLen, Len(data) - o) |-> data[o + k]]

\* C1: when the pattern occurs in the buffer that was read, the one offset
\* that is reported is the smallest index at which the pattern matches.
C1_FirstOccurrence ==
    (Reported /\ Occurs(data, Pattern)) =>
        LET reported == ReportedOffsets
        IN  /\ Cardinality(reported) = 1
            /\ \A o \in reported :
                  /\ MatchAt(data, Pattern, o)
                  /\ \A i \in 0..(o - 1) : ~MatchAt(data, Pattern, i)

\* the pattern occurs twice and the earlier occurrence, not at 0, is reported
C1_Witness ==
    /\ pc = "done"
    /\ \E i \in 1..Len(data), j \in 1..Len(data) :
          /\ i < j
          /\ MatchAt(data, Pattern, i)
          /\ MatchAt(data, Pattern, j)
          /\ ReportedOffsets = {i}

\* C2: when the pattern does not occur (also in an empty or short buffer) the
\* only output is the not-found line and no offset is reported; an offset is
\* reported only when the pattern occurs in the buffer.
C2_NotFoundNoSpuriousOffset ==
    LET reported == ReportedOffsets
    IN  /\ (Reported /\ ~Occurs(data, Pattern)) =>
              (out = <<NotFoundLine>> /\ reported = {})
        /\ (reported # {}) => Occurs(data, Pattern)

\* a buffer that holds the first half of the pattern but not the pattern
C2_Witness ==
    /\ pc = "done"
    /\ ~Occurs(data, Pattern)
    /\ \E i \in 1..(Len(data) - 1) : data[i] = Pattern[1] /\ data[i + 1] = Pattern[2]
    /\ out = <<NotFoundLine>>

\* C3: a reported offset lies in 0..len(data)-len(P), the bytes there are the
\* pattern, and the sentinel -1 is never reported.
C3_OffsetInRange ==
    LET reported == ReportedOffsets
    IN  /\ -1 \notin reported
        /\ \A k \in reported :
              /\ 0 <= k
              /\ k <= Len(data) - Len(Pattern)
              /\ SubSeq(data, k + 1, k + Len(Pattern)) = Pattern

\* the pattern sits at the very end of the buffer: offset = len(data) - 4
C3_Witness ==
    /\ pc = "done"
    /\ Len(data) > Len(Pattern)
    /\ ReportedOffsets = {Len(data) - Len(Pattern)}

\* C4: the header find_mb2.py dumps at offset O is data[O : min(O+32, len)]:
\* 32 bytes when that many remain, else the len - O bytes that remain, no
\* padding; the dump line is the hexadecimal text of exactly these bytes.
C4_HeaderIsClippedWindow ==
    (tool = "mb2" /\ Len(out) = 2) =>
        /\ Len(header) = Min(HeaderLen, Len(data) - offset[1])
        /\ \A k \in 1..Len(header) : header[k] = data[offset[1] + k]
        /\ out[2] = Mb2HeaderLine(Window(offset[1]))

\* fewer than 32 bytes remain: the pattern is the last 4 bytes of the buffer
C4_Witness ==
    /\ tool = "mb2"
    /\ pc = "done"
    /\ Len(out) = 2
    /\ offset[1] = Len(data) - 4
    /\ Len(header) = 4

\* C5 as stated: after the found line, the second line is the bare lowercase
\* hexadecimal text of the window, and nothing else is written.
C5_AsStated ==
    (tool = "mb2" /\ pc = "done") =>
        IF Occurs(data, Pattern)
        THEN out = <<Mb2FoundLine(offset[1]),
                     Mb2BareHeaderLine(Window(offset[1]))>>
        ELSE out = <<Mb2NotFoundLine>>

\* C5 amended: find_mb2.py writes the found line first and then the line
\* "Header: " followed by the lowercase hexadecimal text of the window; when
\* the pattern is absent it writes the not-found line alone.
C5_OutputSequence ==
    /\ (tool = "mb2" /\ pc \in {"slice", "dump"}) =>
          out = <<Mb2FoundLine(offset[1])>>
    /\ (tool = "mb2" /\ pc \in {"exit", "done"}) =>
          IF Occurs(data, Pattern)
          THEN out = <<Mb2FoundLine(offset[1]),
                       Mb2HeaderLine(Window(offset[1]))>>
          ELSE out = <<Mb2NotFoundLine>>

\* a full 32-byte window behind a two-digit offset
C5_Witness ==
    /\ tool = "mb2"
    /\ pc = "done"
    /\ Len(out) = 2
    /\ offset[1] >= 10
    /\ Len(header) = HeaderLen

\* C6: when the file cannot be opened or read the run ends in the error
\* state; nothing is scanned, nothing is printed, open is called once.
C6_IoFailureTerminates ==
    /\ opens <= 1
    /\ (fileStatus \in {"missing", "denied"}) => pc \in {"open", "error"}
    /\ (fileStatus = "ioerror") => pc \in {"open", "read", "error"}
    /\ (fileStatus # "ok") => (offset = <<>> /\ out = <<>> /\ header = <<>>)

\* the read failed after a successful open
C6_Witness ==
    /\ fileStatus = "ioerror"
    /\ pc = "error"
    /\ opens = 1
    /\ out = <<>>

\* C7 as stated: the handle is released right after the read, before the
\* scan and before any output, and on every exit path.
C7_AsStated ==
    /\ (offset # <<>> \/ out # <<>>) => handle # "open"
    /\ (pc \in {"done", "error"}) => handle # "open"

\* C7 amended: the handle is open from the successful open to the end of the
\* with block, that is across the read, the scan and every print, and it is
\* released on every exit path, also when the read fails.
C7_HandleScopedToWithBlock ==
    /\ (handle = "open") <=>
          (pc \in {"read", "magic", "find", "branch", "slice", "dump", "exit"})
    /\ (pc = "done") => handle = "closed"
    /\ (pc = "error") =>
          handle = (IF fileStatus = "ioerror" THEN "closed" ELSE "none")

\* the read raised and the with block closed the handle on the way out
C7_Witness ==
    /\ fileStatus = "ioerror"
    /\ pc = "error"
    /\ handle = "closed"

C8_SameOutput ==
    (pc \in {"done", "error"}) =>
        \A i \in DOMAIN history :
            (history[i].file = file) =>
                (history[i].out = out /\ history[i].ended = pc)

C9_LittleEndianMagic ==
    (tool = "mb2" /\ pc \in {"find", "branch", "slice", "dump", "exit", "done"}) =>
        /\ Len(magic) = 4
        /\ \A i \in 0..3 : magic[i + 1] = ValueByte(Mb2ValueHi, Mb2ValueLo, i)

\* the pattern has been assigned and found in the buffer
C9_Witness ==
    /\ tool = "mb2"
    /\ pc = "branch"
    /\ magic = <<214, 80, 82, 232>>
    /\ offset[1] >= 0

\* C10: a run of find_magic.py that read the file writes exactly one line,
\* the found line or the not-found line; not finding the pattern ends the
\* run normally.
C10_ExactlyOneLine ==
    (tool = "magic") =>
        /\ Len(out) <= 1
        /\ (pc \in {"exit", "done"}) =>
              /\ Len(out) = 1
              /\ \/ out[1] = MagicNotFoundLine /\ ReportedOffsets = {}
                 \/ out[1] # MagicNotFoundLine /\ ReportedOffsets # {}
        /\ (fileStatus = "ok") => pc # "error"
        /\ (pc \in {"open", "read", "magic", "find", "branch"}) => out = <<>>

\* the pattern was not found and the run ended normally with one line
C10_Witness ==
    /\ tool = "magic"
    /\ pc = "done"
    /\ offset = <<-1>>
    /\ out = <<"Magic not found">>
====
